---- MODULE Spec2Model ----
(***************************************************************************)
(* A model of pyinstailor (src/pyinstailor.py): the patch resolver         *)
(* build_updated_items, the repack engine repacker / repack_pyz /          *)
(* CArchiveWriter2.add / repack_exe, the lister print_archive_items and    *)
(* the command line boundary main / excepthook.                            *)
(*                                                                         *)
(* Text (paths, entry names, module names) is a sequence of one-character  *)
(* strings, so that find, split, endswith, strip, normpath and join are    *)
(* computed character by character as the code computes them.  Path syntax *)
(* is POSIX: os.sep is "/" and os.pathsep is ":".                          *)
(*                                                                         *)
(* File contents are sequences of blocks.  A block stands for a run of     *)
(* bytes: one source token, one deflated stream, one TOC record, the       *)
(* trailer cookie.  Lengths are counted in blocks.                         *)
(***************************************************************************)
EXTENDS Integers, Sequences, FiniteSets, TLC

VARIABLES
    pc,         \* position of the engine in the run
    cfg,        \* inputs of the run: entry point, platform, -d, executable
    files,      \* the files argument (a string for main, a list for the API)
    strip,      \* the -s / strip argument
    items,      \* the patch set: logical name -> replacement path, or None
    ret,        \* what build_updated_items returned
    fs,         \* the file system: path -> contents of every existing file
    dirs,       \* the directories the run created
    arch,       \* the CArchiveReader of the run (pkg_start and toc)
    idx,        \* loop index of the for-loop the engine is in
    logic_toc,  \* the annotated TOC handed to CArchiveWriter2
    info,       \* (offset, pylib_name) of get_carchive_info, new package length
    sub,        \* state of the objcopy subprocess
    exc,        \* the exception in flight, or NoExc
    status,     \* exit status of the process, or Running
    logged,     \* lines logged through logger.error by excepthook
    hook,       \* sys.excepthook: "default", "installed", then what became of it
    reported    \* repack_exe logged 'Generate patched bundle ... successfully'

vars == <<pc, cfg, files, strip, items, ret, fs, dirs, arch, idx, logic_toc,
          info, sub, exc, status, logged, hook, reported>>

----------------------------------------------------------------------------
(* Text helpers: Python's str methods on sequences of characters.          *)

\* s.endswith(suf)
EndsWith(s, suf) ==
    /\ Len(s) >= Len(suf)
    /\ SubSeq(s, Len(s) - Len(suf) + 1, Len(s)) = suf

\* s.find(ch) for a single character: the 0-based index, or -1
Find(s, ch) ==
    IF \E k \in 1..Len(s) : s[k] = ch
    THEN (CHOOSE k \in 1..Len(s) : s[k] = ch /\ \A j \in 1..(k - 1) : s[j] /= ch) - 1
    ELSE -1

\* s.split(ch): maximal pieces between occurrences of ch (empty pieces kept)
RECURSIVE Split(_, _)
Split(s, ch) ==
    LET k == Find(s, ch)
    IN  IF k < 0 THEN <<s>>
        ELSE <<SubSeq(s, 1, k)>> \o Split(SubSeq(s, k + 2, Len(s)), ch)

\* ch.join(parts)
RECURSIVE Join(_, _)
Join(parts, ch) ==
    IF Len(parts) = 0 THEN <<>>
    ELSE IF Len(parts) = 1 THEN parts[1]
    ELSE parts[1] \o <<ch>> \o Join(Tail(parts), ch)

\* s.strip(ch)
RECURSIVE LStrip(_, _)
LStrip(s, ch) ==
    IF Len(s) > 0 /\ s[1] = ch THEN LStrip(Tail(s), ch) ELSE s

RECURSIVE RStrip(_, _)
RStrip(s, ch) ==
    IF Len(s) > 0 /\ s[Len(s)] = ch THEN RStrip(SubSeq(s, 1, Len(s) - 1), ch) ELSE s

StripCh(s, ch) == RStrip(LStrip(s, ch), ch)

\* the component loop of posixpath.normpath
RECURSIVE NormComps(_, _, _)
NormComps(comps, new, rooted) ==
    IF Len(comps) = 0 THEN new
    ELSE LET c == comps[1]
             rest == Tail(comps)
         IN  IF c = <<>> \/ c = <<".">> THEN NormComps(rest, new, rooted)
             ELSE IF \/ c /= <<".", ".">>
                     \/ (~rooted /\ Len(new) = 0)
                     \/ (Len(new) > 0 /\ new[Len(new)] = <<".", ".">>)
                  THEN NormComps(rest, Append(new, c), rooted)
             ELSE IF Len(new) > 0
                  THEN NormComps(rest, SubSeq(new, 1, Len(new) - 1), rooted)
             ELSE NormComps(rest, new, rooted)

\* os.path.normpath(p)
NormPath(p) ==
    IF Len(p) = 0 THEN <<".">>
    ELSE LET rooted == p[1] = "/"
             body == Join(NormComps(Split(p, "/"), <<>>, rooted), "/")
             full == IF rooted THEN <<"/">> \o body ELSE body
         IN  IF Len(full) = 0 THEN <<".">> ELSE full

\* os.path.join(a, b)
PathJoin(a, b) ==
    IF Len(b) > 0 /\ b[1] = "/" THEN b
    ELSE IF Len(a) = 0 \/ a[Len(a)] = "/" THEN a \o b
    ELSE a \o <<"/">> \o b

\* os.path.basename(p)
BaseName(p) == LET parts == Split(p, "/") IN parts[Len(parts)]

\* os.path.dirname(p)
DirName(p) ==
    LET parts == Split(p, "/")
        head == Join(SubSeq(parts, 1, Len(parts) - 1), "/")
    IN  IF Len(parts) > 1 /\ Len(head) = 0 THEN <<"/">> ELSE head

\* the index of the dot that os.path.splitext splits at, or 0: the last dot
\* of the name, unless only dots precede it
ExtDot(b) ==
    LET dots == {k \in 1..Len(b) : b[k] = "."}
        last == CHOOSE k \in dots : \A j \in dots : j <= k
    IN  IF dots = {} THEN 0
        ELSE IF \A j \in 1..(last - 1) : b[j] = "." THEN 0
        ELSE last

\* os.path.splitext(b) of a name without directories: <<root, ext>>
SplitExt(b) ==
    IF ExtDot(b) = 0 THEN <<b, <<>>>>
    ELSE <<SubSeq(b, 1, ExtDot(b) - 1), SubSeq(b, ExtDot(b), Len(b))>>

\* the file a path names: paths are relative to the working directory
Resolve(p) == NormPath(p)

----------------------------------------------------------------------------
(* Text constants.                                                          *)

SufPy == <<".", "p", "y">>
SufInit == <<"_", "_", "i", "n", "i", "t", "_", "_", ".", "p", "y">>
SufPyz == <<".", "p", "y", "z">>
SufExtracted == <<"_", "e", "x", "t", "r", "a", "c", "t", "e", "d">>
SufPatched == <<"-", "p", "a", "t", "c", "h", "e", "d">>
PkgPatched == <<"P", "K", "G", "-", "p", "a", "t", "c", "h", "e", "d">>

\* strip=None, the default of build_updated_items
NoStrip == -1

\* Python's None, and a value that is not None
NoneVal == [none |-> TRUE]

Some(v) == [none |-> FALSE, val |-> v]

\* dict operations: d[k] = v, and d.pop(k)
EmptyDict == <<>>

DictSet(d, k, v) == (k :> v) @@ d

DictPop(d, k) == [x \in (DOMAIN d) \ {k} |-> d[x]]

\* exceptions: the type, and what value.args[0] is ("str", "int")
NoExc == [type |-> "none", arg0 |-> "none"]

Exc(type, arg0) == [type |-> type, arg0 |-> arg0]

\* exit status of a process that has not exited
Running == -1

----------------------------------------------------------------------------
(* Patch resolver: build_updated_items.                                     *)

\* line 269: filename.find(os.pathsep) > 0
BuiExplicit(filename) == Find(filename, ":") > 0

\* lines 280-281: if name.endswith(suffix): name = name[:-len(suffix)].strip('.')
DropSuffix(name, suffix) ==
    IF EndsWith(name, suffix)
    THEN StripCh(SubSeq(name, 1, Len(name) - Len(suffix)), ".")
    ELSE name

\* line 279: for suffix in ('.py', '__init__.py')
DropSuffixes(name) == DropSuffix(DropSuffix(name, SufPy), SufInit)

\* line 276: namelist[-2] of a one-element list raises IndexError
BuiRaises(filename, st) ==
    /\ ~BuiExplicit(filename)
    /\ st = NoStrip
    /\ EndsWith(NormPath(filename), SufInit)
    /\ Len(Split(NormPath(filename), "/")) < 2

\* lines 270, 274-281: the name the loop body derives for filename
BuiName(filename, st) ==
    IF BuiExplicit(filename) THEN SubSeq(filename, 1, Find(filename, ":"))
    ELSE LET pathnm == NormPath(filename)
             namelist == Split(pathnm, "/")
             n == Len(namelist)
             raw == IF st = NoStrip
                    THEN namelist[IF EndsWith(pathnm, SufInit) THEN n - 1 ELSE n]
                    ELSE Join(SubSeq(namelist, st + 1, n), ".")
         IN  DropSuffixes(raw)

\* lines 271, 273: pathnm is the normalised whole argument in both branches
BuiPath(filename) == NormPath(filename)

\* iterating the files argument: a list yields its strings, a string its
\* characters
IterOf(arg) == IF arg.isstr THEN [k \in 1..Len(arg.v) |-> <<arg.v[k]>>] ELSE arg.v

----------------------------------------------------------------------------
(* Blocks and the external codecs: compile, marshal, zlib.                  *)

\* a block of plain bytes
Raw(v) == [k |-> "raw", v |-> v]

\* compile(filedata, '<nm>', 'exec') accepts a source of plain text without
\* a syntax error
Compilable(data) == \A i \in 1..Len(data) : data[i].k = "raw" /\ data[i].v /= "bad"

\* the code object compile returns: what was compiled, under which file name
Compile(data, nm) == [co |-> data, fn |-> nm]

\* marshal.dumps(code): a type header, then the code
Marshal(code) == <<[k |-> "code", fn |-> code.fn]>> \o code.co

\* marshal.loads(data)
Unmarshal(data) == [co |-> Tail(data), fn |-> data[1].fn]

\* zlib.compressobj(LEVEL).compress(data) + flush(): one deflated stream
Deflate(data) == <<[k |-> "zlib", z |-> data]>>

\* zlib.decompress(data)
Inflate(data) == data[1].z

----------------------------------------------------------------------------
(* The inner container (PYZ): ZlibArchive, ZlibArchiveWriter.               *)

\* the magic of the running interpreter, and of the PYZ format
PyMagicHere == "py-here"

PyzMagic == "PYZ"

PYZ_TYPE_MODULE == 0

PYZ_TYPE_PKG == 1

\* one stored module: its index entry and its deflated, marshalled code
PyzEntry(name, typ, code) ==
    [k |-> "pyzent", name |-> name, typ |-> typ, z |-> Deflate(Marshal(code))]

\* a PYZ file: header (magic, pymagic), then the entries in index order
PyzFile(pymagic, ents) == <<[k |-> "pyzhdr", magic |-> PyzMagic, pymagic |-> pymagic]>> \o ents

\* lines 69-72: checkmagic raises RuntimeError unless the file starts with
\* MAGIC; a different pymagic (lines 73-74) is only a warning
PyzMagicOk(data) == Len(data) >= 1 /\ data[1].k = "pyzhdr" /\ data[1].magic = PyzMagic

\* arch.toc of a ZlibArchive: the names in index order
PyzToc(data) == [i \in 1..(Len(data) - 1) |-> data[i + 1].name]

\* arch.extract(name) for the i-th name: (typ, code object)
PyzExtract(data, i) == <<data[i + 1].typ, Unmarshal(Inflate(data[i + 1].z))>>

\* ZlibArchiveWriter(pyz, logic_toc, code_dict): entry (name, pathname,
\* 'PYMODULE') is a package iff its pathname is '__init__.py'
PyzWrite(ltoc, code_dict) ==
    PyzFile(PyMagicHere,
            [i \in 1..Len(ltoc) |->
                PyzEntry(ltoc[i][1],
                         IF ltoc[i][2] = SufInit THEN PYZ_TYPE_PKG ELSE PYZ_TYPE_MODULE,
                         code_dict[ltoc[i][1]])])

\* PyzBody with line 149 storing the extracted object: the entry is counted
\* as updated but keeps its old code
PyzBodyKeepsOld(acc, name, typ, obj, hit, pyfile, fsx) ==
    [code_dict |-> DictSet(acc.code_dict, name, obj),
     ltoc |-> Append(acc.ltoc,
                  <<name, IF typ = PYZ_TYPE_PKG THEN SufInit ELSE name, "PYMODULE">>),
     items |-> IF hit THEN DictPop(acc.items, name) ELSE acc.items,
     updated |-> acc.updated + (IF hit THEN 1 ELSE 0),
     err |-> NoExc]

\* lines 147-155: the loop body for the entry name of type typ holding obj;
\* hit: name in items, pyfile: items[name].  acc: code_dict, ltoc
\* (logic_toc), items, updated, err
PyzBody(acc, name, typ, obj, hit, pyfile, fsx) ==
    IF hit /\ pyfile \notin DOMAIN fsx
    THEN [acc EXCEPT !.err = Exc("FileNotFoundError", "int")]
    ELSE IF hit /\ ~Compilable(fsx[pyfile])
    THEN [acc EXCEPT !.err = Exc("SyntaxError", "str")]
    ELSE [code_dict |-> DictSet(acc.code_dict, name,
                            IF hit THEN Compile(fsx[pyfile], name) ELSE obj),
          ltoc |-> Append(acc.ltoc,
                       <<name, IF typ = PYZ_TYPE_PKG THEN SufInit ELSE name, "PYMODULE">>),
          items |-> IF hit THEN DictPop(acc.items, name) ELSE acc.items,
          updated |-> acc.updated + (IF hit THEN 1 ELSE 0),
          err |-> NoExc]

\* lines 144-146: for name in arch.toc: typ, obj = arch.extract(name)
PyzAt(acc, name, ex, fsx) ==
    PyzBody(acc, name, ex[1], ex[2], name \in DOMAIN acc.items,
            IF name \in DOMAIN acc.items THEN Resolve(acc.items[name]) ELSE <<>>, fsx)

\* lines 144-155 of repack_pyz: the loop over arch.toc from index i on
RECURSIVE PyzLoop(_, _, _, _)
PyzLoop(data, i, acc, fsx) ==
    IF i > Len(PyzToc(data)) \/ acc.err /= NoExc THEN acc
    ELSE PyzLoop(data, i + 1, PyzAt(acc, PyzToc(data)[i], PyzExtract(data, i), fsx), fsx)

\* lines 157-160: the archive is written over the file, the count returned
PyzResult(data, its, r) ==
    [err |-> r.err,
     file |-> IF r.err = NoExc THEN PyzWrite(r.ltoc, r.code_dict) ELSE data,
     items |-> r.items,
     updated |-> r.updated]

\* repack_pyz(pyz, items) on the contents data of the file pyz: the
\* exception raised if any, the file it leaves, items after the pops, and
\* the count it returns
repack_pyz(data, its, fsx) ==
    IF ~PyzMagicOk(data)
    THEN [err |-> Exc("RuntimeError", "str"), file |-> data, items |-> its, updated |-> 0]
    ELSE PyzResult(data, its,
                   PyzLoop(data, 1,
                           [code_dict |-> EmptyDict, ltoc |-> <<>>, items |-> its,
                            updated |-> 0, err |-> NoExc], fsx))

----------------------------------------------------------------------------
(* The outer container (CArchive): reader, writer, trailer cookie.          *)

\* PYINST_COOKIE_SIZE = 24 + 64 bytes: one block
CookieBlocks == 1

CArchiveMagic == "MEI"

TocRec(dpos, dlen, ulen, flag, typcd, nm) ==
    [k |-> "toc", dpos |-> dpos, dlen |-> dlen, ulen |-> ulen, flag |-> flag,
     typcd |-> typcd, nm |-> nm]

Cookie(len, tocpos, toclen, pylib) ==
    [k |-> "cookie", magic |-> CArchiveMagic, len |-> len, toc |-> tocpos,
     toclen |-> toclen, pylib |-> pylib]

\* the launcher stub in front of the package; its header records the size
\* of the file (the layout-sensitive field of section 4.5, step 7)
Boot(total) == <<[k |-> "hdr", size |-> total], Raw("stub")>>

\* fp.seek(pos); fp.read(n)
ReadAt(file, pos, n) ==
    IF pos >= Len(file) THEN <<>>
    ELSE SubSeq(file, pos + 1, IF pos + n > Len(file) THEN Len(file) ELSE pos + n)

\* CArchiveReader(path) succeeds: a cookie with the magic ends the file, and
\* the package and its TOC lie inside the file
ArchiveOk(file) ==
    /\ Len(file) >= CookieBlocks
    /\ file[Len(file)].k = "cookie"
    /\ file[Len(file)].magic = CArchiveMagic
    /\ file[Len(file)].len <= Len(file)
    /\ file[Len(file)].toc + file[Len(file)].toclen + CookieBlocks <= file[Len(file)].len

\* arch.pkg_start and arch.toc of CArchiveReader(path)
ReadArchive(file) ==
    LET c == file[Len(file)]
        start == Len(file) - c.len
    IN  [pkg_start |-> start,
         toc |-> [i \in 1..c.toclen |-> file[start + c.toc + i]]]

\* lines 116-119: seeking to size - PYINST_COOKIE_SIZE raises OSError when the
\* file is shorter than the cookie
InfoRaises(file) == Len(file) - CookieBlocks < 0

\* lines 122-128: (pos, pylibname); the magic is not examined
get_carchive_info(file) ==
    LET c == file[Len(file)]
    IN  [offset |-> Len(file) - c.len, pylib |-> c.pylib]

\* CArchiveWriter after the last add: the TOC, then the cookie
WriterFinish(w, pylib) ==
    w.lib \o w.toc \o <<Cookie(Len(w.lib) + Len(w.toc) + CookieBlocks, Len(w.lib),
                            Len(w.toc), pylib)>>

\* dylib.mac_set_relative_dylib_deps(pathnm, ...): rewrites the absolute
\* dependency references of the file in place
RelativeDeps(data) ==
    [i \in 1..Len(data) |->
        IF data[i].k = "raw" /\ data[i].v = "dep" THEN Raw("reldep") ELSE data[i]]

\* osxutils.fix_exe_for_code_signing(output): repairs the size in the header
FixExe(file) ==
    IF Len(file) > 0 /\ file[1].k = "hdr"
    THEN [file EXCEPT ![1] = [k |-> "hdr", size |-> Len(file)]]
    ELSE file

\* line 96: the types that hold script content
ScriptTypes == {"s", "M"}

\* line 94, 103: Python truth of the patched field (a count)
Truthy(n) == n /= 0

\* lines 110-111: dlen = tell() - where; self.toc.add(where, dlen, ulen, ...)
AddToc(w, entry, fs1, ulen, stored) ==
    [w |-> [lib |-> w.lib \o stored,
            toc |-> Append(w.toc, TocRec(Len(w.lib), Len(stored), ulen, entry[4],
                                         entry[5], entry[6]))],
     fs |-> fs1,
     err |-> NoExc]

\* AddWrite with "and patched" dropped from line 103: every entry whose
\* flag is set is deflated again
AddWriteRecompress(w, entry, fs1, payload) ==
    AddToc(w, entry, fs1,
           IF Truthy(entry[1]) THEN Len(payload) ELSE entry[3],
           IF entry[4] = 1 THEN Deflate(payload) ELSE payload)

\* lines 99-108: ulen is the length of a patched payload; the payload is
\* deflated when flag == 1 and patched, and written as it is otherwise
AddWrite(w, entry, fs1, payload) ==
    AddToc(w, entry, fs1,
           IF Truthy(entry[1]) THEN Len(payload) ELSE entry[3],
           IF entry[4] = 1 /\ Truthy(entry[1]) THEN Deflate(payload) ELSE payload)

\* AddData without lines 96-98: the replacement source is stored uncompiled
AddDataNoCompile(w, entry, fs1, filedata) == AddWrite(w, entry, fs1, filedata)

\* lines 90-98: the file is read; a patched entry of a script type is
\* compiled and marshalled
AddData(w, entry, fs1, filedata) ==
    IF Truthy(entry[1]) /\ entry[5] \in ScriptTypes
    THEN IF Compilable(filedata)
         THEN AddWrite(w, entry, fs1, Marshal(Compile(filedata, entry[6])))
         ELSE [w |-> w, fs |-> fs1, err |-> Exc("SyntaxError", "str")]
    ELSE AddWrite(w, entry, fs1, filedata)

\* lines 86-91: on macOS a patched binary is relinked in place before it is
\* read; a missing file raises
AddFile(w, entry, fsx, darwin, pathnm) ==
    IF pathnm \notin DOMAIN fsx
    THEN [w |-> w, fs |-> fsx, err |-> Exc("FileNotFoundError", "int")]
    ELSE IF darwin /\ Truthy(entry[1]) /\ entry[5] = "b"
    THEN AddData(w, entry, [fsx EXCEPT ![pathnm] = RelativeDeps(@)],
                 RelativeDeps(fsx[pathnm]))
    ELSE AddData(w, entry, fsx, fsx[pathnm])

\* CArchiveWriter2.add(entry), entry = (patched, dlen, ulen, flag, typcd, nm,
\* pathnm), with the writer in state w (lib: the bytes written, toc: the
\* CTOC), the files fsx and is_darwin: the writer, the files and the
\* exception after it
add(w, entry, fsx, darwin) == AddFile(w, entry, fsx, darwin, Resolve(entry[7]))

\* CArchiveWriter.__init__: add every entry of logic_toc in order, stopping
\* at the first exception
RECURSIVE AddAll(_, _, _, _, _)
RECURSIVE AddNext(_, _, _, _)
AddAll(w, ltoc, i, fsx, darwin) ==
    IF i > Len(ltoc) THEN [w |-> w, fs |-> fsx, err |-> NoExc]
    ELSE AddNext(add(w, ltoc[i], fsx, darwin), ltoc, i, darwin)

\* the writer goes on to the next entry unless add raised
AddNext(r, ltoc, i, darwin) ==
    IF r.err /= NoExc THEN r ELSE AddAll(r.w, ltoc, i + 1, r.fs, darwin)

----------------------------------------------------------------------------
(* The inputs of a run.                                                     *)

\* the executable, in the working directory
ExeApp == <<"a", "p", "p", ".", "e", "x", "e">>

\* outer entry names
NmApp == <<"a", "p", "p">>

NmMod == <<"m", "o", "d">>

NmPyz == <<"P", "Y", "Z", ".", "p", "y", "z">>

NmLib == <<"l", "i", "b", ".", "s", "o">>

NmData == <<"d", "/", "t">>

NmTrav == <<".", ".", "/", "a", "p", "p", ".", "e", "x", "e">>

\* inner (PYZ) entry names
NmReader == <<"r", "e", "a", "d", "e", "r">>

NmUtil == <<"u", "t", "i", "l">>

\* a name no archive holds
NmNone == <<"z", "z", "z">>

\* replacement files
FNewPy == <<"n", "e", "w", ".", "p", "y">>

FBadPy == <<"b", "a", "d", ".", "p", "y">>

FNewSo == <<"n", "e", "w", ".", "s", "o">>

FGonePy == <<"g", "o", "n", "e", ".", "p", "y">>

\* files arguments of build_updated_items
ArgSrcFoo == <<"s", "r", "c", "/", "f", "o", "o", ".", "p", "y">>

ArgReaderInit == <<"r", "e", "a", "d", "e", "r", "/", "_", "_", "i", "n", "i", "t", "_", "_", ".", "p", "y">>

ArgUpReaderInit == <<".", ".", "/", ".", ".", "/", "r", "e", "a", "d", "e", "r", "/", "_", "_", "i", "n", "i", "t", "_", "_", ".", "p", "y">>

ArgFoo == <<"f", "o", "o", ".", "p", "y">>

ArgExplicit == <<"f", "o", "o", ":", "x", "/", "f", "o", "o", ".", "p", "y">>

ArgInit == <<"_", "_", "i", "n", "i", "t", "_", "_", ".", "p", "y">>

ArgDotted == <<".", "/", "a", "/", "/", "b", ".", "p", "y">>

\* bounds of the resolver's inputs: files per call, and the largest strip
MaxFiles == 2

MaxStrip == 2

ArgSet == {ArgSrcFoo, ArgReaderInit, ArgUpReaderInit, ArgFoo, ArgExplicit, ArgInit, ArgDotted}

FileLists == UNION {[1..n -> ArgSet] : n \in 1..MaxFiles}

StripVals == {NoStrip} \cup 0..MaxStrip

\* the code objects the bundle was built from
OrigCode(nm) == Compile(<<Raw("old")>>, nm)

\* outer entries of the input bundles: name, type, compression flag,
\* uncompressed length, stored data
EntScript ==
    [nm |-> NmApp, typcd |-> "s", flag |-> 1, ulen |-> Len(Marshal(OrigCode(NmApp))),
     data |-> Deflate(Marshal(OrigCode(NmApp)))]

EntMod ==
    [nm |-> NmMod, typcd |-> "M", flag |-> 0, ulen |-> Len(Marshal(OrigCode(NmMod))),
     data |-> Marshal(OrigCode(NmMod))]

EntLib ==
    [nm |-> NmLib, typcd |-> "b", flag |-> 1, ulen |-> 2,
     data |-> Deflate(<<Raw("so"), Raw("dep")>>)]

EntData == [nm |-> NmData, typcd |-> "x", flag |-> 0, ulen |-> 1, data |-> <<Raw("t")>>]

EntTrav == [nm |-> NmTrav, typcd |-> "x", flag |-> 0, ulen |-> 1, data |-> <<Raw("t")>>]

PyzData(pymagic) ==
    PyzFile(pymagic, <<PyzEntry(NmReader, PYZ_TYPE_PKG, OrigCode(NmReader)),
                       PyzEntry(NmUtil, PYZ_TYPE_MODULE, OrigCode(NmUtil))>>)

EntPyz(pymagic) ==
    [nm |-> NmPyz, typcd |-> "z", flag |-> 0, ulen |-> Len(PyzData(pymagic)),
     data |-> PyzData(pymagic)]

EntBadPyz == [nm |-> NmPyz, typcd |-> "z", flag |-> 0, ulen |-> 1, data |-> <<Raw("junk")>>]

\* the package PyInstaller built from a list of entries (built as
\* CArchiveWriter lays it out: data, TOC, cookie)
RECURSIVE BuildW(_, _, _)
BuildW(ents, i, w) ==
    IF i > Len(ents) THEN w
    ELSE BuildW(ents, i + 1,
            [lib |-> w.lib \o ents[i].data,
             toc |-> Append(w.toc, TocRec(Len(w.lib), Len(ents[i].data), ents[i].ulen,
                                          ents[i].flag, ents[i].typcd, ents[i].nm))])

BuildPkg(ents) == WriterFinish(BuildW(ents, 1, [lib |-> <<>>, toc |-> <<>>]), "libpython")

\* a bundle: the launcher stub, then the package
BuildExe(ents) == Boot(Len(Boot(0)) + Len(BuildPkg(ents))) \o BuildPkg(ents)

\* the input bundles: a usual one, one whose PYZ was built by another Python
\* version, one whose PYZ entry is no PYZ, one with an entry name that leads
\* out of the mirror directory, and a file that is no bundle
ImageGood == BuildExe(<<EntScript, EntLib, EntData, EntPyz(PyMagicHere)>>)

ImageOld == BuildExe(<<EntMod, EntPyz("py-old")>>)

ImageBadPyz == BuildExe(<<EntData, EntBadPyz>>)

ImageTrav == BuildExe(<<EntTrav, EntScript>>)

ImageCorrupt == Boot(3) \o <<Raw("junk")>>

Images == {ImageGood, ImageOld, ImageBadPyz, ImageTrav, ImageCorrupt}

\* the patch sets handed to repacker
PatchSets ==
    { EmptyDict,
      NmApp :> FNewPy,
      NmMod :> FNewPy,
      NmReader :> FNewPy,
      NmLib :> FNewSo,
      NmNone :> FNewPy,
      NmApp :> FGonePy,
      NmApp :> FBadPy,
      NmUtil :> FBadPy,
      (NmApp :> FNewPy) @@ (NmUtil :> FNewPy) }

\* the files on disk before the run
InitFs(image) ==
    (ExeApp :> image) @@ (FNewPy :> <<Raw("n1"), Raw("n2")>>)
        @@ (FBadPy :> <<Raw("bad")>>) @@ (FNewSo :> <<Raw("elf"), Raw("dep")>>)

Platforms == {"linux", "darwin", "other"}

is_linux == cfg.platform = "linux"

is_darwin == cfg.platform = "darwin"

\* lines 200, 204: name + '_extracted'
ExtractPath(exe) == SplitExt(BaseName(exe))[1] \o SufExtracted

\* line 228: name + '-patched' + ext
OutputPath(exe) == SplitExt(BaseName(exe))[1] \o SufPatched \o SplitExt(BaseName(exe))[2]

\* line 169: os.path.join(path, 'PKG-patched')
PkgPath(exe) == PathJoin(ExtractPath(exe), PkgPatched)

\* line 238: os.path.basename(executable) + '_extracted'
ListPath(exe) == BaseName(exe) \o SufExtracted

\* os.path.exists(p): the working directory, a directory or a file
Exists(p, fsx, ds) == Resolve(p) = <<".">> \/ Resolve(p) \in ds \/ Resolve(p) \in DOMAIN fsx

\* os.makedirs(p): p and the parents it lacks
RECURSIVE MakeAll(_, _)
MakeAll(p, ds) ==
    IF p = <<>> \/ p = <<".">> \/ p \in ds THEN ds
    ELSE MakeAll(DirName(p), ds \cup {p})

\* lines 57-59: makedirs(path, exist_ok=True)
makedirs(p, fsx, ds) == IF Exists(p, fsx, ds) THEN ds ELSE MakeAll(Resolve(p), ds)

\* line 218: nm.endswith('.pyz') and typcd in ('z', 'Z')
IsPyzEntry(nm, typcd) == EndsWith(nm, SufPyz) /\ typcd \in {"z", "Z"}

----------------------------------------------------------------------------
(* Initial states: a call of build_updated_items, a call of repacker, or a  *)
(* run of main.                                                             *)

NoArch == [pkg_start |-> 0, toc |-> <<>>]

NoInfo == [offset |-> 0, pylib |-> ""]

Rest ==
    /\ ret = Some("unset")
    /\ dirs = {}
    /\ arch = NoArch
    /\ idx = 1
    /\ logic_toc = <<>>
    /\ info = NoInfo
    /\ sub = "none"
    /\ exc = NoExc
    /\ status = Running
    /\ logged = 0
    /\ hook = "default"
    /\ reported = FALSE

InitResolver ==
    /\ pc = "bui_loop"
    /\ cfg = [entry |-> "build_updated_items", platform |-> "other", objcopy |-> TRUE,
              debug |-> FALSE, exe |-> ExeApp, image |-> ImageGood, patch |-> EmptyDict]
    /\ \E l \in FileLists : files = [isstr |-> FALSE, v |-> l]
    /\ strip \in StripVals
    /\ items = Some(EmptyDict)
    /\ fs = InitFs(ImageGood)
    /\ Rest

InitRepacker ==
    /\ pc = "rp_open"
    /\ \E plat \in Platforms, oc \in BOOLEAN, im \in Images, ps \in PatchSets :
          /\ (plat /= "linux" => oc)
          /\ cfg = [entry |-> "repacker", platform |-> plat, objcopy |-> oc,
                    debug |-> FALSE, exe |-> ExeApp, image |-> im, patch |-> ps]
          /\ items = Some(ps)
          /\ fs = InitFs(im)
    /\ files = NoneVal
    /\ strip = 0
    /\ Rest

InitMain ==
    /\ pc = "main"
    /\ \E d \in BOOLEAN, im \in Images :
          /\ cfg = [entry |-> "main", platform |-> "other", objcopy |-> TRUE,
                    debug |-> d, exe |-> ExeApp, image |-> im, patch |-> EmptyDict]
          /\ fs = InitFs(im)
    /\ files \in {NoneVal, [isstr |-> TRUE, v |-> FNewPy]}
    /\ strip \in 0..1
    /\ items = NoneVal
    /\ Rest

Init == InitResolver \/ InitRepacker \/ InitMain

\* an exception leaves the function: main lets it reach the interpreter, a
\* direct call hands it to the caller
Raised == IF cfg.entry = "main" THEN "uncaught" ELSE "propagated"

\* a function called directly returns to its caller
Returned == IF cfg.entry = "main" THEN "main_return" ELSE "done"

----------------------------------------------------------------------------
(* main and excepthook.                                                     *)

\* lines 309-319: parse, set the hook, choose listing or patching
MainParse ==
    /\ pc = "main"
    /\ hook' = IF cfg.debug THEN "default" ELSE "installed"
    /\ IF files = NoneVal
       THEN pc' = "ls_mkdir" /\ UNCHANGED items
       ELSE pc' = "bui_loop" /\ items' = Some(EmptyDict)
    /\ idx' = 1
    /\ UNCHANGED <<cfg, files, strip, ret, fs, dirs, arch, logic_toc, info, sub, exc,
                   status, logged, reported>>

\* lines 268-282: one iteration of the loop of build_updated_items
BuiStep ==
    /\ pc = "bui_loop"
    /\ idx <= Len(IterOf(files))
    /\ LET filename == IterOf(files)[idx]
       IN  IF BuiRaises(filename, strip)
           THEN /\ exc' = Exc("IndexError", "str")
                /\ pc' = Raised
                /\ UNCHANGED <<items, idx>>
           ELSE /\ items' = Some(DictSet(items.val, BuiName(filename, strip),
                                         BuiPath(filename)))
                /\ idx' = idx + 1
                /\ UNCHANGED <<pc, exc>>
    /\ UNCHANGED <<cfg, files, strip, ret, fs, dirs, arch, logic_toc, info, sub,
                   status, logged, hook, reported>>

\* the function ends after line 282 without a return statement: the caller
\* gets None (line 319: items = build_updated_items(...))
BuiReturn ==
    /\ pc = "bui_loop"
    /\ idx > Len(IterOf(files))
    /\ ret' = NoneVal
    /\ IF cfg.entry = "main"
       THEN pc' = "main_keys" /\ items' = NoneVal
       ELSE pc' = "done" /\ UNCHANGED items
    /\ UNCHANGED <<cfg, files, strip, fs, dirs, arch, idx, logic_toc, info, sub, exc,
                   status, logged, hook, reported>>

\* lines 320-321: items.keys(), then repacker
MainKeys ==
    /\ pc = "main_keys"
    /\ IF items = NoneVal
       THEN exc' = Exc("AttributeError", "str") /\ pc' = "uncaught"
       ELSE pc' = "rp_open" /\ UNCHANGED exc
    /\ UNCHANGED <<cfg, files, strip, items, ret, fs, dirs, arch, idx, logic_toc,
                   info, sub, status, logged, hook, reported>>

\* main returns (line 317, or after line 321): the process exits with 0
MainReturn ==
    /\ pc = "main_return"
    /\ status' = 0
    /\ pc' = "exited"
    /\ UNCHANGED <<cfg, files, strip, items, ret, fs, dirs, arch, idx, logic_toc,
                   info, sub, exc, logged, hook, reported>>

\* an uncaught exception reaches the interpreter, which calls sys.excepthook:
\* the default hook prints the traceback and the process exits with 1
Uncaught ==
    /\ pc = "uncaught"
    /\ IF hook = "installed"
       THEN pc' = "excepthook" /\ hook' = "entered" /\ UNCHANGED status
       ELSE pc' = "exited" /\ status' = 1 /\ UNCHANGED hook
    /\ UNCHANGED <<cfg, files, strip, items, ret, fs, dirs, arch, idx, logic_toc,
                   info, sub, exc, logged, reported>>

\* lines 285-290.  isinstance(str, value.args[0]) raises TypeError unless
\* args[0] is itself a type, and IndexError when args is empty; an exception
\* in the hook makes the interpreter print both tracebacks and exit with 1
excepthook ==
    /\ pc = "excepthook"
    /\ IF exc.arg0 = "type"
       THEN logged' = logged + 1 /\ hook' = "exited"
       ELSE hook' = "raised" /\ UNCHANGED logged
    /\ status' = 1
    /\ pc' = "exited"
    /\ UNCHANGED <<cfg, files, strip, items, ret, fs, dirs, arch, idx, logic_toc,
                   info, sub, exc, reported>>

----------------------------------------------------------------------------
(* File access.                                                             *)

\* open(p, 'wb'); write(data); close
WriteFile(fsx, p, data) == (Resolve(p) :> data) @@ fsx

\* the contents of the executable as the run finds them on disk
ExeData == fs[Resolve(cfg.exe)]

----------------------------------------------------------------------------
(* Lister: print_archive_items.                                             *)

\* lines 238-241: the working directory is made before the archive is read
LsMkdir ==
    /\ pc = "ls_mkdir"
    /\ dirs' = IF Exists(ListPath(cfg.exe), fs, dirs) THEN dirs
               ELSE MakeAll(Resolve(ListPath(cfg.exe)), dirs)
    /\ pc' = "ls_open"
    /\ UNCHANGED <<cfg, files, strip, items, ret, fs, arch, idx, logic_toc, info, sub,
                   exc, status, logged, hook, reported>>

\* line 244: arch = CArchiveReader(executable)
LsOpen ==
    /\ pc = "ls_open"
    /\ IF ArchiveOk(ExeData)
       THEN /\ arch' = ReadArchive(ExeData)
            /\ pc' = "ls_loop"
            /\ UNCHANGED exc
       ELSE /\ exc' = Exc("ArchiveReadError", "str")
            /\ pc' = Raised
            /\ UNCHANGED arch
    /\ idx' = 1
    /\ logic_toc' = <<>>
    /\ UNCHANGED <<cfg, files, strip, items, ret, fs, dirs, info, sub, status, logged,
                   hook, reported>>

\* lines 246-257: one outer entry; a PYZ is extracted and put on pyzlist
\* (held in logic_toc)
LsEntry ==
    /\ pc = "ls_loop"
    /\ idx <= Len(arch.toc)
    /\ LET e == arch.toc[idx]
           pathnm == PathJoin(ListPath(cfg.exe), e.nm)
       IN  IF IsPyzEntry(e.nm, e.typcd)
           THEN /\ fs' = WriteFile(fs, pathnm,
                                   ReadAt(WriteFile(fs, pathnm, <<>>)[Resolve(cfg.exe)],
                                          arch.pkg_start + e.dpos, e.dlen))
                /\ logic_toc' = Append(logic_toc, pathnm)
           ELSE UNCHANGED <<fs, logic_toc>>
    /\ idx' = idx + 1
    /\ UNCHANGED <<pc, cfg, files, strip, items, ret, dirs, arch, info, sub, exc, status,
                   logged, hook, reported>>

\* line 259: the first loop is over
LsLoopEnd ==
    /\ pc = "ls_loop"
    /\ idx > Len(arch.toc)
    /\ pc' = "ls_pyz"
    /\ idx' = 1
    /\ UNCHANGED <<cfg, files, strip, items, ret, fs, dirs, arch, logic_toc, info, sub,
                   exc, status, logged, hook, reported>>

\* lines 259-263: one PYZ of pyzlist is opened and its names are printed
LsPyz ==
    /\ pc = "ls_pyz"
    /\ idx <= Len(logic_toc)
    /\ IF PyzMagicOk(fs[Resolve(logic_toc[idx])])
       THEN idx' = idx + 1 /\ UNCHANGED <<pc, exc>>
       ELSE exc' = Exc("RuntimeError", "str") /\ pc' = Raised /\ UNCHANGED idx
    /\ UNCHANGED <<cfg, files, strip, items, ret, fs, dirs, arch, logic_toc, info, sub,
                   status, logged, hook, reported>>

\* print_archive_items returns
LsReturn ==
    /\ pc = "ls_pyz"
    /\ idx > Len(logic_toc)
    /\ pc' = Returned
    /\ UNCHANGED <<cfg, files, strip, items, ret, fs, dirs, arch, idx, logic_toc, info,
                   sub, exc, status, logged, hook, reported>>

----------------------------------------------------------------------------
(* Repack engine: repacker.                                                 *)

\* lines 200-202: arch = CArchiveReader(executable), before any directory or
\* file is made
RpOpen ==
    /\ pc = "rp_open"
    /\ IF ArchiveOk(ExeData)
       THEN /\ arch' = ReadArchive(ExeData)
            /\ pc' = "rp_mkdir"
            /\ UNCHANGED exc
       ELSE /\ exc' = Exc("ArchiveReadError", "str")
            /\ pc' = Raised
            /\ UNCHANGED arch
    /\ logic_toc' = <<>>
    /\ UNCHANGED <<cfg, files, strip, items, ret, fs, dirs, idx, info, sub, status,
                   logged, hook, reported>>

\* lines 204-206: makedirs(path, exist_ok=True)
RpMkdir ==
    /\ pc = "rp_mkdir"
    /\ dirs' = makedirs(ExtractPath(cfg.exe), fs, dirs)
    /\ pc' = "rp_loop"
    /\ idx' = 1
    /\ UNCHANGED <<cfg, files, strip, items, ret, fs, arch, logic_toc, info, sub, exc,
                   status, logged, hook, reported>>

\* lines 211-216: the entry is copied out of the executable.  open(pathnm,
\* 'wb') empties the file before arch.lib.read(dlen) reads the executable
Extracted(fsx, e, pathnm) ==
    WriteFile(fsx, pathnm,
              ReadAt(WriteFile(fsx, pathnm, <<>>)[Resolve(cfg.exe)],
                     arch.pkg_start + e.dpos, e.dlen))

\* lines 218-226: the annotated entry (patched, dlen, ulen, flag, typcd, nm,
\* pathnm) of an entry that is no PYZ
Annotate(e, pathnm, its) ==
    IF e.nm \in DOMAIN its
    THEN <<1, e.dlen, e.ulen, e.flag, e.typcd, e.nm, its[e.nm]>>
    ELSE <<0, e.dlen, e.ulen, e.flag, e.typcd, e.nm, pathnm>>

\* lines 220, 226: the annotated entry of a PYZ: patched is the count
\* repack_pyz returned
AnnotatePyz(e, pathnm, updated) ==
    <<updated, e.dlen, e.ulen, e.flag, e.typcd, e.nm, pathnm>>

\* line 220: patched = repack_pyz(pathnm, items), r its outcome
RpPyz(e, pathnm, fs1, r) ==
    IF r.err /= NoExc
    THEN /\ fs' = fs1
         /\ items' = Some(r.items)
         /\ exc' = r.err
         /\ pc' = Raised
         /\ UNCHANGED <<logic_toc, idx>>
    ELSE /\ fs' = WriteFile(fs1, pathnm, r.file)
         /\ items' = Some(r.items)
         /\ logic_toc' = Append(logic_toc, AnnotatePyz(e, pathnm, r.updated))
         /\ idx' = idx + 1
         /\ UNCHANGED <<exc, pc>>

\* lines 218-226, fs1 the files after the extraction of lines 211-216
RpPatch(e, pathnm, fs1) ==
    IF IsPyzEntry(e.nm, e.typcd)
    THEN RpPyz(e, pathnm, fs1, repack_pyz(fs1[Resolve(pathnm)], items.val, fs1))
    ELSE /\ fs' = fs1
         /\ logic_toc' = Append(logic_toc, Annotate(e, pathnm, items.val))
         /\ idx' = idx + 1
         /\ UNCHANGED <<items, exc, pc>>

\* lines 210-226 for the entry e extracted to pathnm
RpBody(e, pathnm) ==
    /\ dirs' = makedirs(DirName(pathnm), fs, dirs)
    /\ RpPatch(e, pathnm, Extracted(fs, e, pathnm))

\* lines 208-226: the loop body for one outer entry
RpEntry ==
    /\ pc = "rp_loop"
    /\ idx <= Len(arch.toc)
    /\ RpBody(arch.toc[idx], PathJoin(ExtractPath(cfg.exe), arch.toc[idx].nm))
    /\ UNCHANGED <<cfg, files, strip, ret, arch, info, sub, status, logged, hook,
                   reported>>

\* lines 228-230: shutil.copy2(executable, output)
RpCopy ==
    /\ pc = "rp_loop"
    /\ idx > Len(arch.toc)
    /\ fs' = WriteFile(fs, OutputPath(cfg.exe), ExeData)
    /\ pc' = "rx_info"
    /\ UNCHANGED <<cfg, files, strip, items, ret, dirs, arch, idx, logic_toc, info, sub,
                   exc, status, logged, hook, reported>>

----------------------------------------------------------------------------
(* Repack engine: repack_exe.                                               *)

OutData == fs[Resolve(OutputPath(cfg.exe))]

\* line 166: offset, pylib_name = get_carchive_info(output)
RxInfo ==
    /\ pc = "rx_info"
    /\ IF InfoRaises(OutData)
       THEN exc' = Exc("OSError", "int") /\ pc' = Raised /\ UNCHANGED info
       ELSE info' = get_carchive_info(OutData) /\ pc' = "rx_write" /\ UNCHANGED exc
    /\ UNCHANGED <<cfg, files, strip, items, ret, fs, dirs, arch, idx, logic_toc, sub,
                   status, logged, hook, reported>>

\* lines 169-171: CArchiveWriter2(pkgname, logic_toc, pylib_name=pylib_name);
\* an exception in add leaves the part of PKG-patched written so far
\* r: the outcome of the adds
RxWritten(r) ==
    IF r.err /= NoExc
    THEN /\ fs' = WriteFile(r.fs, PkgPath(cfg.exe), r.w.lib)
         /\ exc' = r.err
         /\ pc' = Raised
    ELSE /\ fs' = WriteFile(r.fs, PkgPath(cfg.exe), WriterFinish(r.w, info.pylib))
         /\ pc' = "rx_splice"
         /\ UNCHANGED exc

RxWrite ==
    /\ pc = "rx_write"
    /\ RxWritten(AddAll([lib |-> <<>>, toc |-> <<>>], logic_toc, 1, fs, is_darwin))
    /\ UNCHANGED <<cfg, files, strip, items, ret, dirs, arch, idx, logic_toc, info, sub,
                   status, logged, hook, reported>>

\* lines 178-186: seek(offset), copy PKG-patched over the rest, truncate
Spliced(out, offset, pkg) == SubSeq(out, 1, offset) \o pkg

\* after lines 173-186: the block of lines 188-192 runs on macOS only
AfterSplice == IF is_darwin THEN "rx_fix" ELSE "rx_report"

\* lines 173-186: on Linux Popen starts objcopy and returns at once (it
\* raises when objcopy cannot be started); elsewhere the package is spliced
RxSplice ==
    /\ pc = "rx_splice"
    /\ IF is_linux
       THEN IF cfg.objcopy
            THEN sub' = "running" /\ pc' = AfterSplice /\ UNCHANGED <<fs, exc>>
            ELSE exc' = Exc("FileNotFoundError", "int") /\ pc' = Raised
                 /\ UNCHANGED <<fs, sub>>
       ELSE /\ fs' = WriteFile(fs, OutputPath(cfg.exe),
                               Spliced(OutData, info.offset, fs[Resolve(PkgPath(cfg.exe))]))
            /\ pc' = AfterSplice
            /\ UNCHANGED <<sub, exc>>
    /\ UNCHANGED <<cfg, files, strip, items, ret, dirs, arch, idx, logic_toc, info,
                   status, logged, hook, reported>>

\* lines 188-192: the Mach-O header is repaired for code signing
RxFix ==
    /\ pc = "rx_fix"
    /\ fs' = WriteFile(fs, OutputPath(cfg.exe), FixExe(OutData))
    /\ pc' = "rx_report"
    /\ UNCHANGED <<cfg, files, strip, items, ret, dirs, arch, idx, logic_toc, info, sub,
                   exc, status, logged, hook, reported>>

\* RxReport after a wait for the subprocess and a check of its exit status
RxReportWaits ==
    /\ pc = "rx_report"
    /\ sub \in {"none", "ok"}
    /\ reported' = TRUE
    /\ pc' = Returned
    /\ UNCHANGED <<cfg, files, strip, items, ret, fs, dirs, arch, idx, logic_toc, info,
                   sub, exc, status, logged, hook>>

\* line 194: success is logged and repack_exe, then repacker, return; the
\* subprocess is neither waited for nor asked for its exit status
RxReport ==
    /\ pc = "rx_report"
    /\ reported' = TRUE
    /\ pc' = Returned
    /\ UNCHANGED <<cfg, files, strip, items, ret, fs, dirs, arch, idx, logic_toc, info,
                   sub, exc, status, logged, hook>>

\* objcopy --update-section pydata=PKG-patched output: the subprocess ends,
\* having replaced the section or having failed, whenever it does
ObjcopyDone ==
    /\ sub = "running"
    /\ fs' = WriteFile(fs, OutputPath(cfg.exe),
                       Spliced(OutData, info.offset, fs[Resolve(PkgPath(cfg.exe))]))
    /\ sub' = "ok"
    /\ UNCHANGED <<pc, cfg, files, strip, items, ret, dirs, arch, idx, logic_toc, info,
                   exc, status, logged, hook, reported>>

ObjcopyFail ==
    /\ sub = "running"
    /\ sub' = "failed"
    /\ UNCHANGED <<pc, cfg, files, strip, items, ret, fs, dirs, arch, idx, logic_toc,
                   info, exc, status, logged, hook, reported>>

----------------------------------------------------------------------------
(* The specifications.                                                      *)

Engine ==
    \/ MainParse \/ BuiStep \/ BuiReturn \/ MainKeys \/ MainReturn \/ Uncaught
    \/ excepthook
    \/ LsMkdir \/ LsOpen \/ LsEntry \/ LsLoopEnd \/ LsPyz \/ LsReturn
    \/ RpOpen \/ RpMkdir \/ RpEntry \/ RpCopy
    \/ RxInfo \/ RxWrite \/ RxSplice \/ RxFix \/ RxReport

Next == Engine \/ ObjcopyDone \/ ObjcopyFail

Spec == Init /\ [][Next]_vars

\* the engine is one sequential process: having launched objcopy it executes
\* its next statement, the report of line 194; nothing is assumed about when,
\* or whether, objcopy ends
FairSpec == Spec /\ WF_vars(RxReport)

----------------------------------------------------------------------------
(* What the claims speak of.                                                *)

\* the package of the input executable, and where it starts
OldArch == ReadArchive(cfg.image)

\* repacker has written PKG-patched completely
PkgBuilt ==
    /\ cfg.entry = "repacker"
    /\ pc \in {"rx_splice", "rx_fix", "rx_report", "done"}

\* the rebuilt package (PKG-patched), and its TOC
NewPkg == fs[Resolve(PkgPath(cfg.exe))]

NewToc == ReadArchive(NewPkg).toc

\* the bytes an entry stores in a file whose package starts at start
Stored(file, start, e) == ReadAt(file, start + e.dpos, e.dlen)

\* the payload of an entry: its stored bytes, inflated if its flag is set
Payload(file, start, e) ==
    IF e.flag = 1 THEN Inflate(Stored(file, start, e)) ELSE Stored(file, start, e)

\* the names and types of a PYZ, and the code object of each entry
PyzIndex(data) == [j \in 1..Len(PyzToc(data)) |-> <<data[j + 1].name, data[j + 1].typ>>]

PyzCode(data) == [j \in 1..Len(PyzToc(data)) |-> PyzExtract(data, j)[2]]

\* the logical name section 4.6 derives from the normalised path: strip
\* components, join with '.', drop a trailing package-init or script suffix
ExpectedName(path, st) ==
    LET parts == Split(NormPath(path), "/")
        joined == Join(SubSeq(parts, st + 1, Len(parts)), ".")
    IN  IF EndsWith(joined, SufInit)
        THEN StripCh(SubSeq(joined, 1, Len(joined) - Len(SufInit)), ".")
        ELSE IF EndsWith(joined, SufPy)
        THEN SubSeq(joined, 1, Len(joined) - Len(SufPy))
        ELSE joined

----------------------------------------------------------------------------
(* C1: in the mapping of build_updated_items(files, strip) every path that  *)
(* is no name:path pair is keyed by the logical name: the first strip       *)
(* components dropped, the rest joined with '.', a trailing '.py' or        *)
(* '__init__.py' dropped ('reader/__init__.py' with strip 0 gives 'reader').*)
(* Stated of the mapping the function has built when it ends (items); what  *)
(* it returns is ret.                                                       *)
C1_NameDerivation ==
    (cfg.entry = "build_updated_items" /\ pc = "done" /\ strip /= NoStrip) =>
        \A i \in 1..Len(files.v) :
            ~BuiExplicit(files.v[i]) =>
                /\ ExpectedName(files.v[i], strip) \in DOMAIN items.val
                /\ items.val[ExpectedName(files.v[i], strip)] = NormPath(files.v[i])

(* C2: when a patch run has completed, the bytes of the output file before  *)
(* the package start equal those of the input, and the output is as long as *)
(* the bootloader plus the rebuilt package.                                 *)
C2_Splice ==
    (cfg.entry = "repacker" /\ pc = "done") =>
        /\ SubSeq(OutData, 1, OldArch.pkg_start) = SubSeq(cfg.image, 1, OldArch.pkg_start)
        /\ Len(OutData) = OldArch.pkg_start + Len(NewPkg)

(* C3, as claimed: with an empty patch set the rebuilt package has the same *)
(* entries in the same order (name, type, uncompressed length), and the     *)
(* payload of every entry, nested containers included, equals the original  *)
(* byte for byte.                                                           *)
C3_RoundTripBytes ==
    (PkgBuilt /\ cfg.patch = EmptyDict) =>
        /\ Len(NewToc) = Len(OldArch.toc)
        /\ \A i \in 1..Len(NewToc) :
              /\ NewToc[i].nm = OldArch.toc[i].nm
              /\ NewToc[i].typcd = OldArch.toc[i].typcd
              /\ NewToc[i].ulen = OldArch.toc[i].ulen
              /\ Payload(NewPkg, 0, NewToc[i])
                    = Payload(cfg.image, OldArch.pkg_start, OldArch.toc[i])

(* C3, amended: with an empty patch set the rebuilt package has the same    *)
(* entries in the same order (name, type, uncompressed length); the payload *)
(* of every entry that is no nested container equals the original byte for  *)
(* byte; a nested container is the rewritten inner archive, which holds the *)
(* same names and types in the same order with the same code objects.       *)
C3_RoundTrip ==
    (PkgBuilt /\ cfg.patch = EmptyDict) =>
        /\ Len(NewToc) = Len(OldArch.toc)
        /\ \A i \in 1..Len(NewToc) :
              /\ NewToc[i].nm = OldArch.toc[i].nm
              /\ NewToc[i].typcd = OldArch.toc[i].typcd
              /\ NewToc[i].ulen = OldArch.toc[i].ulen
              /\ IF IsPyzEntry(NewToc[i].nm, NewToc[i].typcd)
                 THEN /\ PyzIndex(Payload(NewPkg, 0, NewToc[i]))
                            = PyzIndex(Payload(cfg.image, OldArch.pkg_start, OldArch.toc[i]))
                      /\ PyzCode(Payload(NewPkg, 0, NewToc[i]))
                            = PyzCode(Payload(cfg.image, OldArch.pkg_start, OldArch.toc[i]))
                 ELSE Payload(NewPkg, 0, NewToc[i])
                            = Payload(cfg.image, OldArch.pkg_start, OldArch.toc[i])

\* an empty patch set was repacked, and the bundle holds a nested container
\* whose bytes the rewrite changed
C3_Witness ==
    /\ PkgBuilt
    /\ cfg.patch = EmptyDict
    /\ \E i \in 1..Len(NewToc) :
          /\ IsPyzEntry(NewToc[i].nm, NewToc[i].typcd)
          /\ Payload(NewPkg, 0, NewToc[i])
                /= Payload(cfg.image, OldArch.pkg_start, OldArch.toc[i])

\* the entry of the rebuilt package that a patch-set name chose in the outer
\* TOC (line 221)
OuterPatched(e) == e.nm \in DOMAIN cfg.patch /\ ~IsPyzEntry(e.nm, e.typcd)

\* the replacement file of an outer entry, as add read it
Replacement(e) == fs[Resolve(cfg.patch[e.nm])]

OldPyz(k) == Stored(cfg.image, OldArch.pkg_start, OldArch.toc[k])

NewPyz(k) == fs[Resolve(logic_toc[k][7])]

\* the inner names a patch set replaces
Replaced(data) == {j \in 1..Len(PyzToc(data)) : PyzToc(data)[j] \in DOMAIN cfg.patch}

(* C5: repack_pyz(pyz, items) leaves the names of the container and their   *)
(* order as they were; an entry whose name is in items holds the code       *)
(* compiled from its replacement, every other entry the code object         *)
(* extracted from the original; it returns the number of entries replaced.  *)
C5_InnerPatch ==
    cfg.entry = "repacker" =>
        \A k \in 1..Len(logic_toc) :
            IsPyzEntry(logic_toc[k][6], logic_toc[k][5]) =>
                /\ PyzToc(NewPyz(k)) = PyzToc(OldPyz(k))
                /\ \A j \in 1..Len(PyzToc(OldPyz(k))) :
                      PyzCode(NewPyz(k))[j]
                        = (IF j \in Replaced(OldPyz(k))
                           THEN Compile(fs[Resolve(cfg.patch[PyzToc(OldPyz(k))[j]])],
                                        PyzToc(OldPyz(k))[j])
                           ELSE PyzCode(OldPyz(k))[j])
                /\ logic_toc[k][1] = Cardinality(Replaced(OldPyz(k)))

\* repack_pyz has replaced one entry of a container and kept its sibling
C5_Witness ==
    /\ cfg.entry = "repacker"
    /\ \E k \in 1..Len(logic_toc) :
          /\ IsPyzEntry(logic_toc[k][6], logic_toc[k][5])
          /\ logic_toc[k][1] = 1
          /\ Cardinality(Replaced(OldPyz(k))) = 1
          /\ Len(PyzToc(OldPyz(k))) = 2
          /\ PyzCode(NewPyz(k)) /= PyzCode(OldPyz(k))

(* C6: in every run, complete or aborted, the input executable is never     *)
(* written, truncated or replaced: every file the run writes is another     *)
(* file.                                                                    *)
C6_InputUntouched ==
    /\ Resolve(cfg.exe) \in DOMAIN fs
    /\ fs[Resolve(cfg.exe)] = cfg.image

\* what a run may leave behind when the outer archive cannot be parsed
NothingMade == dirs = {} /\ fs = InitFs(cfg.image)

(* C7: when the outer archive cannot be parsed, the run aborts before it    *)
(* makes or writes any directory or file, in a patch run (repacker) and in  *)
(* a listing run (print_archive_items).                                     *)
C7_AbortBeforeMutation == exc.type = "ArchiveReadError" => NothingMade

(* C8: every fatal error of a run of main, with or without -d, reaches      *)
(* excepthook, which logs one line and ends the process with status 1; a    *)
(* run without a fatal error ends with status 0.                            *)
C8_ErrorBoundary ==
    (cfg.entry = "main" /\ status /= Running) =>
        IF exc /= NoExc
        THEN status = 1 /\ hook = "exited" /\ logged = 1
        ELSE status = 0 /\ logged = 0

(* C9: every outer entry that is a nested container is rewritten by         *)
(* repack_pyz, and every entry whose inner archive was rewritten is handed  *)
(* to the outer writer with its patched flag set, also when no inner entry  *)
(* was replaced.                                                            *)
C9_RewrittenIsPatched ==
    cfg.entry = "repacker" =>
        \A k \in 1..Len(logic_toc) :
            IsPyzEntry(logic_toc[k][6], logic_toc[k][5]) => Truthy(logic_toc[k][1])

(* C10: on Linux, once repack_exe has started objcopy it goes on to report  *)
(* success and return, whatever the subprocess does: whether it is still    *)
(* running, has ended well or has failed.                                   *)
C10_NoWait == (sub /= "none" /\ ~reported) ~> (reported /\ pc = "done")

\* success has been reported while objcopy was still running
C10_Witness == reported /\ pc = "done" /\ sub = "running"

====
